---------------------------- MODULE Spec2Model ----------------------------
(***************************************************************************)
(* Supertonic2 TTS Wyoming server (supertonic_server.py).                  *)
(*                                                                         *)
(* The model follows main() through bootstrap (configuration, engine,      *)
(* voice styles, Wyoming Info) and then the SupertonicEventHandler of each *)
(* connection.  All handlers run on one asyncio event loop: the code       *)
(* between two awaits is one atomic step, and the synchronous engine call  *)
(* holds the loop until it returns.                                        *)
(*                                                                         *)
(* Strings that the code inspects (voice tokens, language codes) are       *)
(* sequences of one-character strings.  A waveform is represented by its   *)
(* sample positions: a chunk's payload is the half-open range [lo, hi) of  *)
(* positions of wav_int16 it carries.  Floats are fixed point: config      *)
(* numbers in tenths, the engine's duration in milliseconds.               *)
(***************************************************************************)
EXTENDS Integers, Sequences, FiniteSets, TLC

\* ------------------------------------------------------------------ bounds

\* Synthesize commands accepted over the whole run, all connections together.
MaxCmds == 2

\* The connections the server accepts.
Conns == {"c1", "c2"}

\* ------------------------------------------------------- program constants

SUPPORTED_LANGUAGES ==
    { <<"e", "n">>, <<"f", "r">>, <<"e", "s">>, <<"p", "t">>, <<"k", "o">> }

SUPPORTED_VOICES ==
    { <<g, d>> : g \in {"M", "F"}, d \in {"1", "2", "3", "4", "5"} }

chunk_size == 1024

\* ------------------------------------------------------------ Python values

\* Optional[str]: None, or a string.
None == [isNone |-> TRUE, val |-> <<>>]
Some(s) == [isNone |-> FALSE, val |-> s]

\* A JSON scalar of options.json as int() and float() see it: a number (in
\* tenths) or a string that is no numeral.
Num(x10) == [kind |-> "num", x10 |-> x10]
NotANumber == [kind |-> "str", x10 |-> 0]

\* float(v): [ok, x10]; ValueError on a string that is no numeral.
PyFloat(v) == [ok |-> v.kind = "num", x10 |-> v.x10]

\* int(v): truncation toward zero; ValueError on a string that is no numeral.
PyInt(v) ==
    [ok |-> v.kind = "num",
     n  |-> IF v.x10 >= 0 THEN v.x10 \div 10 ELSE -((-v.x10) \div 10)]

\* "_" in voice
HasUnderscore(s) == \E k \in 1..Len(s) : s[k] = "_"

\* voice.split("_", 1): the parts before and after the first underscore.
SplitOnce(s) ==
    LET k == CHOOSE j \in 1..Len(s) :
                 s[j] = "_" /\ \A h \in 1..(j - 1) : s[h] # "_"
    IN  <<SubSeq(s, 1, k - 1), SubSeq(s, k + 1, Len(s))>>

\* dict.get(key, default)
Get(d, key, default) == IF key \in DOMAIN d THEN d[key] ELSE default

Min(a, b) == IF a < b THEN a ELSE b
Max(a, b) == IF a > b THEN a ELSE b

\* ------------------------------------------------------------- environment

M4 == <<"M", "4">>
M1 == <<"M", "1">>
F1 == <<"F", "1">>
ZZ == <<"Z", "Z">>
fr == <<"f", "r">>
de == <<"d", "e">>

\* The configuration main() builds when /data/options.json does not exist.
DefaultConfig ==
    [default_language |-> fr, default_voice |-> M4,
     speed |-> Num(15), volume_boost |-> Num(20), quality |-> Num(5 * 10)]

\* Contents of options.json the model tries: the empty object, and the
\* default object with one key changed.
OptionFiles ==
    { [k \in {} |-> 0],
      [DefaultConfig EXCEPT !.default_voice = F1],
      [DefaultConfig EXCEPT !.default_voice = ZZ],
      [DefaultConfig EXCEPT !.default_language = de],
      [DefaultConfig EXCEPT !.quality = NotANumber],
      [DefaultConfig EXCEPT !.speed = NotANumber],
      [DefaultConfig EXCEPT !.volume_boost = NotANumber] }

\* Which <voice_id>.json files exist under models/voice_styles.
VoiceFileSets ==
    { SUPPORTED_VOICES, SUPPORTED_VOICES \ {M4}, {} }

\* The sample rate of the loaded engine.
SampleRates == {44100}

\* Texts and voice tokens a client sends in a synthesize event.
Texts == { None, Some(<<>>), Some(<<"H", "i">>) }
VoiceTokens ==
    { None, Some(M1), Some(ZZ),
      Some(<<"e", "n", "_", "F", "1">>),
      Some(<<"d", "e", "_", "M", "4">>),
      Some(<<"f", "r", "_", "Z", "Z">>) }

\* Event types a client sends.
EventTypes == {"synthesize", "describe", "ping"}

\* What the engine call can do: raise, or return a (1, n) waveform and a
\* duration (milliseconds).
EngineOutcomes ==
    { [raises |-> TRUE, n |-> 0, ms |-> 0] } \cup
    { [raises |-> FALSE, n |-> r[1], ms |-> r[2]] :
        r \in { <<0, 0>>, <<1024, 24>>, <<1100, 23>>,
                <<2048, 47>>, <<3000, 47>> } }

\* The style load_voice_style returns for <voice_id>.json.
Style(voice_id) == [file |-> voice_id]
NoStyle == [file |-> <<>>]


\* ------------------------------------------------------------------- state

VARIABLES
    env,           \* the files on disk and the connections clients open
    mainpc,        \* where main() is
    config,        \* the options dict
    sample_rate,   \* tts_engine.sample_rate (0: engine not loaded)
    voice_styles,  \* voice id -> style
    wyoming_info,  \* the voice names of the Info (TtsVoice.name)
    pc,            \* per connection: where its handler task is
    cur,           \* per connection: the event being handled
    loc,           \* per connection: the locals of _handle_synthesize
    call,          \* per connection: the arguments of the engine call made
    out,           \* per connection: events written while handling cur
    ret,           \* per connection: what handle_event returned
    ncmds,         \* synthesize commands accepted so far
    wire,          \* per connection: the commands received on it and the
                   \* last event written on it
    zc,            \* Zeroconf: aiozc and service_info are set (not None),
                   \* local_ip, the service is advertised, the step of
                   \* the setup that raised, "Zeroconf setup failed" was
                   \* logged, "Error stopping Zeroconf" was logged (warned)
    server         \* the AsyncServer: not_started, listening, stopped
                   \* (run returned) or failed (run raised)

vars == <<env, mainpc, config, sample_rate, voice_styles, wyoming_info,
          pc, cur, loc, call, out, ret, ncmds, wire, zc, server>>

shared == <<env, config, sample_rate, voice_styles, wyoming_info>>

\* aiozc = None, service_info = None
NoZeroconf ==
    [aiozc |-> FALSE, service_info |-> FALSE, local_ip |-> "unset",
     registered |-> FALSE, failed |-> "none", logged |-> FALSE,
     warned |-> FALSE]

NoEvent == [type |-> "none", text |-> None, voice |-> None]

NoLocals ==
    [language |-> <<>>, req_voice |-> <<>>, voice_name |-> <<>>,
     err |-> "none", n |-> 0, trim_samples |-> 0, len |-> 0, i |-> 0]

NoCall ==
    [made |-> FALSE, text |-> <<>>, lang |-> <<>>, voice_name |-> <<>>,
     style |-> NoStyle, total_step |-> 0, speed_x10 |-> 0]

\* A connection on which no command was received and nothing written.
NoTraffic == [cmds |-> 0, last |-> [cmd |-> 0, type |-> "none"]]

\* The connection's traffic after an event of the given type is written for
\* the command being handled.
Sent(w, type) == [w EXCEPT !.last = [cmd |-> w.cmds, type |-> type]]

\* AudioChunk(rate, width, channels, audio).event(); audio is the range of
\* sample positions [lo, hi) of wav_int16.
AudioChunk(rate, slice) ==
    [type |-> "audio-chunk", rate |-> rate, width |-> 2, channels |-> 1,
     lo |-> slice.lo, hi |-> slice.hi]

\* AudioStop().event()
AudioStop ==
    [type |-> "audio-stop", rate |-> 0, width |-> 0, channels |-> 0,
     lo |-> 0, hi |-> 0]

\* ------------------------------------------------------------- bootstrap

\* The state main() starts from, all but the environment.
Start ==
    /\ mainpc = "load_config"
    /\ config = [k \in {} |-> 0]
    /\ sample_rate = 0
    /\ voice_styles = [v \in {} |-> NoStyle]
    /\ wyoming_info = {}
    /\ pc = [c \in Conns |-> "idle"]
    /\ cur = [c \in Conns |-> NoEvent]
    /\ loc = [c \in Conns |-> NoLocals]
    /\ call = [c \in Conns |-> NoCall]
    /\ out = [c \in Conns |-> <<>>]
    /\ ret = [c \in Conns |-> FALSE]
    /\ ncmds = 0
    /\ wire = [c \in Conns |-> NoTraffic]
    /\ zc = NoZeroconf
    /\ server = "not_started"

conn == <<pc, cur, loc, call, out, ret, ncmds, wire>>

boot == <<shared, conn, server>>
main == <<mainpc, zc, server>>

\* options.json (absent, or one of OptionFiles), the voice files, the
\* --zeroconf flag, the connections clients open and what they send on them
\* ("all": every event and engine outcome of the model, "few": two of each).
Environments(conns, load) ==
    [options : { [exists |-> FALSE, content |-> [k \in {} |-> 0]] } \cup
               { [exists |-> TRUE, content |-> f] : f \in OptionFiles },
     voice_files : VoiceFileSets,
     zeroconf : BOOLEAN,
     conns : {conns},
     load : {load}]

\* main(): options.json exists and is loaded.
LoadOptionsFile ==
    /\ mainpc = "load_config"
    /\ env.options.exists
    /\ config' = env.options.content
    /\ mainpc' = "load_engine"
    /\ UNCHANGED <<env, sample_rate, voice_styles, wyoming_info, conn, zc, server>>

\* main(): options.json does not exist.
UseDefaultConfig ==
    /\ mainpc = "load_config"
    /\ ~env.options.exists
    /\ config' = DefaultConfig
    /\ mainpc' = "load_engine"
    /\ UNCHANGED <<env, sample_rate, voice_styles, wyoming_info, conn, zc, server>>

\* main(): load_text_to_speech returns the engine.
LoadEngine ==
    /\ mainpc = "load_engine"
    /\ \E r \in SampleRates : sample_rate' = r
    /\ mainpc' = "load_voices"
    /\ UNCHANGED <<env, config, voice_styles, wyoming_info, conn, zc, server>>

\* main(): load_text_to_speech raises; main() ends before serving.
LoadEngineFails ==
    /\ mainpc = "load_engine"
    /\ mainpc' = "exited"
    /\ UNCHANGED <<shared, conn, zc, server>>

\* The voice_styles dict after the loading loop, given the files that exist.
LoadVoiceStyles(files) ==
    [v \in { w \in SUPPORTED_VOICES : w \in files } |-> Style(v)]

LoadVoices ==
    /\ mainpc = "load_voices"
    /\ voice_styles' = LoadVoiceStyles(env.voice_files)
    /\ mainpc' = "build_info"
    /\ UNCHANGED <<env, config, sample_rate, wyoming_info, conn, zc, server>>

\* The names of the TtsVoice list: f"{lang_code}_{voice_id}".
TtsVoiceNames ==
    { lang_code \o <<"_">> \o voice_id :
        lang_code \in SUPPORTED_LANGUAGES, voice_id \in SUPPORTED_VOICES }

BuildInfo ==
    /\ mainpc = "build_info"
    /\ wyoming_info' = TtsVoiceNames
    /\ mainpc' = "start_server"
    /\ UNCHANGED <<env, config, sample_rate, voice_styles, conn, zc, server>>

\* if args.zeroconf: not requested.
ZeroconfDisabled ==
    /\ mainpc = "start_server"
    /\ ~env.zeroconf
    /\ mainpc' = "serve"
    /\ UNCHANGED <<boot, zc>>

\* The outcomes of "Get local IP address": the address of the interface,
\* or 0.0.0.0 when the lookup raises (inner except, nothing is logged).
LocalIps == {"lan", "0.0.0.0"}

\* The steps of the setup that can raise out of it, before the
\* registration.
ZeroconfSteps == {"import", "ServiceInfo", "AsyncZeroconf"}

\* What is set when the setup raises at a step: the imports come before the
\* address lookup, ServiceInfo(...) and AsyncZeroconf() after it, and
\* service_info is assigned before AsyncZeroconf() is called.
SetupFailure(step, ip) ==
    [NoZeroconf EXCEPT
        !.local_ip = IF step = "import" THEN "unset" ELSE ip,
        !.service_info = (step = "AsyncZeroconf"),
        !.failed = step,
        !.logged = TRUE]

\* Mutant: no except clause around the Zeroconf setup: its exception goes
\* to the outer handlers and main() ends.
AfterSetupFailure_Propagates == "finally_err"

\* except Exception around the setup: "Zeroconf setup failed" is logged and
\* main() goes on to server.run.
AfterSetupFailure == "serve"

\* The setup raises before the registration.
ZeroconfSetupFails ==
    /\ mainpc = "start_server"
    /\ env.zeroconf
    /\ \E step \in ZeroconfSteps, ip \in LocalIps :
           zc' = SetupFailure(step, ip)
    /\ mainpc' = AfterSetupFailure
    /\ UNCHANGED boot

\* The setup up to await aiozc.async_register_service(service_info).
ZeroconfSetup ==
    /\ mainpc = "start_server"
    /\ env.zeroconf
    /\ \E ip \in LocalIps :
           zc' = [zc EXCEPT !.aiozc = TRUE, !.service_info = TRUE,
                            !.local_ip = ip]
    /\ mainpc' = "registering"
    /\ UNCHANGED boot

\* The registration succeeds: the service is advertised.
RegisterService ==
    /\ mainpc = "registering"
    /\ zc' = [zc EXCEPT !.registered = TRUE]
    /\ mainpc' = "serve"
    /\ UNCHANGED boot

\* The registration raises.
RegisterServiceFails ==
    /\ mainpc = "registering"
    /\ zc' = [zc EXCEPT !.failed = "register", !.logged = TRUE]
    /\ mainpc' = AfterSetupFailure
    /\ UNCHANGED boot

\* await server.run(handler_factory): the server listens.
ServerRun ==
    /\ mainpc = "serve"
    /\ mainpc' = "run"
    /\ server' = "listening"
    /\ UNCHANGED <<shared, conn, zc>>

\* Mutant: the engine call handed to an executor and awaited: the loop
\* stays free while it runs.
LoopFree_Executor == TRUE

\* The event loop runs one task at a time; the engine call does not await,
\* so no other task runs while a handler is inside it.
LoopFree == \A c \in Conns : pc[c] # "engine"
\* server.run returns: the server was stopped.
ServerExits ==
    /\ mainpc = "run"
    /\ LoopFree
    /\ server' = "stopped"
    /\ mainpc' = "finally"
    /\ UNCHANGED <<shared, conn, zc>>

\* server.run raises, at its start (the port cannot be bound) or later:
\* except Exception logs "Server failed" and raises again.
ServerRunFails ==
    /\ mainpc \in {"serve", "run"}
    /\ LoopFree
    /\ server' = "failed"
    /\ mainpc' = "finally_err"
    /\ UNCHANGED <<shared, conn, zc>>

\* Where main() ends after the finally clause: it returns, or the exception
\* raised again by the except clause leaves it.
AfterFinally == IF mainpc = "finally" THEN "exited" ELSE "raised"

\* finally: if aiozc is not None and service_info is not None
ShutdownNeeded == zc.aiozc /\ zc.service_info

\* finally: nothing to stop.
FinallySkip ==
    /\ mainpc \in {"finally", "finally_err"}
    /\ ~ShutdownNeeded
    /\ mainpc' = AfterFinally
    /\ UNCHANGED <<boot, zc>>

\* finally: async_unregister_service and async_close succeed.
FinallyUnregister ==
    /\ mainpc \in {"finally", "finally_err"}
    /\ ShutdownNeeded
    /\ zc' = [zc EXCEPT !.registered = FALSE]
    /\ mainpc' = AfterFinally
    /\ UNCHANGED boot

\* finally: async_unregister_service raises; the warning is logged and the
\* service stays as it was.
FinallyUnregisterFails ==
    /\ mainpc \in {"finally", "finally_err"}
    /\ ShutdownNeeded
    /\ zc' = [zc EXCEPT !.warned = TRUE]
    /\ mainpc' = AfterFinally
    /\ UNCHANGED boot

\* --------------------------------------------- SupertonicEventHandler

\* Mutant: the describe event is dispatched as a synthesize command.
IsSynthesize_AlsoDescribe(type) == type \in {"synthesize", "describe"}

\* Synthesize.is_type(event.type)
IsSynthesize(type) == type = "synthesize"

\* The events a client can send: a synthesize command with its data, or an
\* event of another type.
Events ==
    { [type |-> "synthesize", text |-> x, voice |-> v] :
        x \in Texts, v \in VoiceTokens } \cup
    { [type |-> t, text |-> None, voice |-> None] :
        t \in EventTypes \ {"synthesize"} }

\* The events of a light client: a synthesize command with a text and no
\* voice, and a describe event.
FewEvents ==
    { e \in Events :
        \/ e.type = "synthesize" /\ e.text = Some(<<"H", "i">>)
                                 /\ e.voice = None
        \/ e.type = "describe" }

\* The engine raises, or returns one chunk's worth of samples.
FewOutcomes == { o \in EngineOutcomes : o.raises \/ o.n = 1100 }

ClientEvents == IF env.load = "all" THEN Events ELSE FewEvents
EngineResults == IF env.load = "all" THEN EngineOutcomes ELSE FewOutcomes

\* self.config.get("default_voice", "M4")
DefaultVoice(cfg) == Get(cfg, "default_voice", M4)

\* voice = synthesize.voice or self.config.get("default_voice", "M4")
RequestedVoice(v, cfg) ==
    IF v.isNone \/ v.val = <<>> THEN DefaultVoice(cfg) ELSE v.val

\* Mutant: the language of a token without underscore is the literal "fr",
\* not the configured default language.
Decompose_LiteralLanguage(voice, cfg) ==
    IF HasUnderscore(voice)
    THEN [language |-> SplitOnce(voice)[1], voice_name |-> SplitOnce(voice)[2]]
    ELSE [language |-> fr, voice_name |-> voice]

\* The language and voice name taken from the voice spec.
Decompose(voice, cfg) ==
    IF HasUnderscore(voice)
    THEN [language |-> SplitOnce(voice)[1], voice_name |-> SplitOnce(voice)[2]]
    ELSE [language |-> Get(cfg, "default_language", fr), voice_name |-> voice]

\* Mutant: no fallback to the default voice.
VoiceStyleLookup_NoFallback(vs, voice_name, cfg) ==
    [ok |-> voice_name \in DOMAIN vs,
     voice_name |-> voice_name,
     style |-> IF voice_name \in DOMAIN vs THEN vs[voice_name] ELSE NoStyle]

\* Mutant: a lookup that yields no style instead of raising KeyError
\* (self.voice_styles.get(voice_name)).
VoiceStyleLookup_NoKeyError(vs, voice_name, cfg) ==
    LET name == IF voice_name \notin DOMAIN vs
                THEN DefaultVoice(cfg) ELSE voice_name
    IN  [ok |-> TRUE,
         voice_name |-> name,
         style |-> IF name \in DOMAIN vs THEN vs[name] ELSE NoStyle]

\* "Get voice style": the default voice replaces a voice_name that is not
\* loaded; self.voice_styles[voice_name] raises KeyError (ok = FALSE) when the
\* name it ends with is not a key.
VoiceStyleLookup(vs, voice_name, cfg) ==
    LET name == IF voice_name \notin DOMAIN vs
                THEN DefaultVoice(cfg) ELSE voice_name
    IN  [ok |-> name \in DOMAIN vs,
         voice_name |-> name,
         style |-> IF name \in DOMAIN vs THEN vs[name] ELSE NoStyle]

\* Mutant: the substituted style is stored under the requested name
\* (self.voice_styles[voice_name] = self.voice_styles[default]).
VoiceStylesAfterLookup_Cached(vs, voice_name, cfg) ==
    IF voice_name \notin DOMAIN vs /\ DefaultVoice(cfg) \in DOMAIN vs
    THEN [v \in DOMAIN vs \cup {voice_name} |->
            IF v = voice_name THEN vs[DefaultVoice(cfg)] ELSE vs[v]]
    ELSE vs

\* self.voice_styles once "Get voice style" is done: the table is tested for
\* membership and subscripted, the substitution rebinds the local
\* voice_name only.
VoiceStylesAfterLookup(vs, voice_name, cfg) == vs

\* trim_samples = int(self.tts_engine.sample_rate * duration_val)
TrimSamples(rate, ms) ==
    IF ms >= 0 THEN (rate * ms) \div 1000 ELSE -((rate * (-ms)) \div 1000)

\* Mutant: the row taken whole (wav[0, :]).
SliceLen_NoTrim(n, stop) == n

\* len(wav[0, :stop]) for a row of n samples
SliceLen(n, stop) ==
    IF stop >= 0 THEN Min(stop, n) ELSE Max(n + stop, 0)

\* Mutant: wav_int16[i:chunk_size], the slice's end not moved with i.
ChunkSlice_FixedEnd(i, len) ==
    [lo |-> i, hi |-> Max(i, Min(chunk_size, len))]

\* chunk = wav_int16[i:i + chunk_size], as a range of sample positions
ChunkSlice(i, len) == [lo |-> i, hi |-> Min(i + chunk_size, len)]

Serving == mainpc = "run" /\ LoopFree

\* Mutant: _handle_synthesize started as a task of its own, not awaited:
\* the next event is read while chunks are still being written.
CanReceive_NotAwaited(c) == pc[c] \in {"idle", "chunk"}

\* The session reads its next event once handle_event has returned:
\* handle_event awaits _handle_synthesize to its end.
CanReceive(c) == pc[c] = "idle"

\* handle_event, else branch: the event is logged; return True.
HandleOtherEvent(c, ev) ==
    /\ Serving
    /\ CanReceive(c)
    /\ ~IsSynthesize(ev.type)
    /\ cur' = [cur EXCEPT ![c] = ev]
    /\ pc' = [pc EXCEPT ![c] = "return"]
    /\ ret' = [ret EXCEPT ![c] = TRUE]
    /\ UNCHANGED <<main, shared, loc, call, out, ncmds, wire>>

\* handle_event, Synthesize branch, and _handle_synthesize up to the engine
\* call.  text[:50] (before the try) raises TypeError on None: the exception
\* leaves handle_event.  Inside the try: the voice style lookup, then
\* int(quality) and float(speed) as the call's arguments are evaluated.
HandleSynthesizeEvent(c, ev) ==
    /\ Serving
    /\ CanReceive(c)
    /\ IsSynthesize(ev.type)
    /\ ncmds < MaxCmds
    /\ ncmds' = ncmds + 1
    /\ wire' = [wire EXCEPT ![c].cmds = @ + 1]
    /\ cur' = [cur EXCEPT ![c] = ev]
    /\ LET voice == RequestedVoice(ev.voice, config)
           d     == Decompose(voice, config)
           look  == VoiceStyleLookup(voice_styles, d.voice_name, config)
           qual  == PyInt(Get(config, "quality", Num(50)))
           speed == PyFloat(Get(config, "speed", Num(15)))
           l0    == [NoLocals EXCEPT !.language = d.language,
                                     !.req_voice = d.voice_name,
                                     !.voice_name = d.voice_name]
       IN  IF ev.text.isNone
           THEN /\ pc' = [pc EXCEPT ![c] = "crashed"]
                /\ loc' = [loc EXCEPT ![c] = [l0 EXCEPT !.err = "TypeError"]]
                /\ call' = call
           ELSE IF ~look.ok
           THEN /\ pc' = [pc EXCEPT ![c] = "except"]
                /\ loc' = [loc EXCEPT ![c] =
                             [l0 EXCEPT !.voice_name = look.voice_name,
                                        !.err = "KeyError"]]
                /\ call' = call
           ELSE IF ~qual.ok \/ ~speed.ok
           THEN /\ pc' = [pc EXCEPT ![c] = "except"]
                /\ loc' = [loc EXCEPT ![c] =
                             [l0 EXCEPT !.voice_name = look.voice_name,
                                        !.err = "ValueError"]]
                /\ call' = call
           ELSE /\ pc' = [pc EXCEPT ![c] = "engine"]
                /\ loc' = [loc EXCEPT ![c] =
                             [l0 EXCEPT !.voice_name = look.voice_name]]
                /\ call' = [call EXCEPT ![c] =
                             [made |-> TRUE, text |-> ev.text.val,
                              lang |-> d.language,
                              voice_name |-> look.voice_name,
                              style |-> look.style,
                              total_step |-> qual.n,
                              speed_x10 |-> speed.x10]]
    /\ voice_styles' =
          IF ev.text.isNone THEN voice_styles
          ELSE VoiceStylesAfterLookup(
                  voice_styles,
                  Decompose(RequestedVoice(ev.voice, config), config).voice_name,
                  config)
    /\ UNCHANGED <<main, env, config, sample_rate, wyoming_info, out, ret>>

\* The engine call ends, and the post-processing up to the first write:
\* the engine raises, or float(volume) raises, or wav_int16 is ready.
EngineReturns(c, o) ==
    /\ mainpc = "run"
    /\ pc[c] = "engine"
    /\ LET vol == PyFloat(Get(config, "volume_boost", Num(20)))
           len == SliceLen(o.n, TrimSamples(sample_rate, o.ms))
       IN  IF o.raises
           THEN /\ pc' = [pc EXCEPT ![c] = "except"]
                /\ loc' = [loc EXCEPT ![c].err = "EngineError"]
           ELSE IF ~vol.ok
           THEN /\ pc' = [pc EXCEPT ![c] = "except"]
                /\ loc' = [loc EXCEPT ![c].err = "ValueError"]
           ELSE /\ pc' = [pc EXCEPT ![c] = IF len > 0 THEN "chunk" ELSE "stop"]
                /\ loc' = [loc EXCEPT
                             ![c].n = o.n,
                             ![c].trim_samples = TrimSamples(sample_rate, o.ms),
                             ![c].len = len,
                             ![c].i = 0]
    /\ UNCHANGED <<main, shared, cur, call, out, ret, ncmds, wire>>

\* await self.write_event(AudioChunk(...).event()) and the loop's next test.
WriteChunk(c) ==
    /\ Serving
    /\ pc[c] = "chunk"
    /\ out' = [out EXCEPT ![c] =
                 Append(@, AudioChunk(sample_rate,
                                      ChunkSlice(loc[c].i, loc[c].len)))]
    /\ loc' = [loc EXCEPT ![c].i = @ + chunk_size]
    /\ pc' = [pc EXCEPT ![c] =
                 IF loc[c].i + chunk_size < loc[c].len THEN "chunk" ELSE "stop"]
    /\ wire' = [wire EXCEPT ![c] = Sent(@, "audio-chunk")]
    /\ UNCHANGED <<main, shared, cur, call, ret, ncmds>>

\* Mutant: the write guarded inside the loop: a chunk whose write raises is
\* skipped and the loop goes on with the next one.
WriteChunkFails_Continue(c) ==
    /\ Serving
    /\ pc[c] = "chunk"
    /\ loc' = [loc EXCEPT ![c].err = "WriteError", ![c].i = @ + chunk_size]
    /\ pc' = [pc EXCEPT ![c] =
                 IF loc[c].i + chunk_size < loc[c].len THEN "chunk" ELSE "stop"]
    /\ UNCHANGED <<main, shared, cur, call, out, ret, ncmds, wire>>

\* The chunk's write_event raises (the client is gone).
WriteChunkFails(c) ==
    /\ Serving
    /\ pc[c] = "chunk"
    /\ loc' = [loc EXCEPT ![c].err = "WriteError"]
    /\ pc' = [pc EXCEPT ![c] = "except"]
    /\ UNCHANGED <<main, shared, cur, call, out, ret, ncmds, wire>>

\* "Signal completion": await self.write_event(AudioStop().event()), then
\* handle_event returns True.
WriteStop(c) ==
    /\ Serving
    /\ pc[c] = "stop"
    /\ out' = [out EXCEPT ![c] = Append(@, AudioStop)]
    /\ pc' = [pc EXCEPT ![c] = "return"]
    /\ ret' = [ret EXCEPT ![c] = TRUE]
    /\ wire' = [wire EXCEPT ![c] = Sent(@, "audio-stop")]
    /\ UNCHANGED <<main, shared, cur, loc, call, ncmds>>

WriteStopFails(c) ==
    /\ Serving
    /\ pc[c] = "stop"
    /\ loc' = [loc EXCEPT ![c].err = "WriteError"]
    /\ pc' = [pc EXCEPT ![c] = "except"]
    /\ UNCHANGED <<main, shared, cur, call, out, ret, ncmds, wire>>

\* except Exception: the error is logged and AudioStop is written; then
\* handle_event returns True.
ExceptStop(c) ==
    /\ Serving
    /\ pc[c] = "except"
    /\ out' = [out EXCEPT ![c] = Append(@, AudioStop)]
    /\ pc' = [pc EXCEPT ![c] = "return"]
    /\ ret' = [ret EXCEPT ![c] = TRUE]
    /\ wire' = [wire EXCEPT ![c] = Sent(@, "audio-stop")]
    /\ UNCHANGED <<main, shared, cur, loc, call, ncmds>>

\* The write in the except clause raises: the exception leaves handle_event.
ExceptStopFails(c) ==
    /\ Serving
    /\ pc[c] = "except"
    /\ pc' = [pc EXCEPT ![c] = "crashed"]
    /\ UNCHANGED <<main, shared, cur, loc, call, out, ret, ncmds, wire>>

\* handle_event has returned True: the session waits for the next event.
NextEvent(c) ==
    /\ Serving
    /\ pc[c] = "return"
    /\ pc' = [pc EXCEPT ![c] = "idle"]
    /\ cur' = [cur EXCEPT ![c] = NoEvent]
    /\ loc' = [loc EXCEPT ![c] = NoLocals]
    /\ call' = [call EXCEPT ![c] = NoCall]
    /\ out' = [out EXCEPT ![c] = <<>>]
    /\ ret' = [ret EXCEPT ![c] = FALSE]
    /\ UNCHANGED <<main, shared, ncmds, wire>>

Next ==
    \/ LoadOptionsFile
    \/ UseDefaultConfig
    \/ LoadEngine
    \/ LoadEngineFails
    \/ LoadVoices
    \/ BuildInfo
    \/ ZeroconfDisabled
    \/ ZeroconfSetupFails
    \/ ZeroconfSetup
    \/ RegisterService
    \/ RegisterServiceFails
    \/ ServerRun
    \/ ServerExits
    \/ ServerRunFails
    \/ FinallySkip
    \/ FinallyUnregister
    \/ FinallyUnregisterFails
    \/ \E c \in env.conns, ev \in ClientEvents : HandleOtherEvent(c, ev)
    \/ \E c \in env.conns, ev \in ClientEvents : HandleSynthesizeEvent(c, ev)
    \/ \E c \in Conns, o \in EngineResults : EngineReturns(c, o)
    \/ \E c \in Conns : WriteChunk(c)
    \/ \E c \in Conns : WriteChunkFails(c)
    \/ \E c \in Conns : WriteStop(c)
    \/ \E c \in Conns : WriteStopFails(c)
    \/ \E c \in Conns : ExceptStop(c)
    \/ \E c \in Conns : ExceptStopFails(c)
    \/ \E c \in Conns : NextEvent(c)

\* One connection, every event and every engine outcome.
Init ==
    /\ env \in Environments({"c1"}, "all")
    /\ Start

Spec == Init /\ [][Next]_vars

\* Two connections with light clients, every voice file present, options.json
\* absent or naming another default voice.
InitConc ==
    /\ env \in { e \in Environments(Conns, "few") :
                   /\ e.voice_files = SUPPORTED_VOICES
                   /\ e.options.exists =>
                         e.options.content =
                            [DefaultConfig EXCEPT !.default_voice = F1] }
    /\ Start

SpecConc == InitConc /\ [][Next]_vars

\* ------------------------------------------------------------ properties

IsSynthCmd(c) == cur[c].type = "synthesize"

\* The handling of cur[c] is over: handle_event returned, or raised.
Finished(c) == pc[c] \in {"return", "crashed"}

ChunksOf(events) == SelectSeq(events, LAMBDA e : e.type = "audio-chunk")
StopsOf(events) == SelectSeq(events, LAMBDA e : e.type = "audio-stop")

\* The sample positions a chunk carries, in order.
Payload(e) == [j \in 1..(e.hi - e.lo) |-> e.lo + j]

RECURSIVE ConcatPayloads(_)
ConcatPayloads(events) ==
    IF events = <<>> THEN <<>>
    ELSE Payload(Head(events)) \o ConcatPayloads(Tail(events))

CeilDiv(a, b) == (a + b - 1) \div b

\* The default voice id as the configuration states it.
ConfiguredDefaultVoice ==
    IF "default_voice" \in DOMAIN config THEN config["default_voice"] ELSE M4

\* The command of connection c got as far as the voice style lookup.
PastLookup(c) == pc[c] # "idle" /\ loc[c].err # "TypeError"

\* C1: every synthesize command, however it ends, has written exactly one
\* AudioStop when its handling is over, and that AudioStop is the last event
\* written for it.
C1_ExactlyOneStopLast ==
    \A c \in Conns :
        IsSynthCmd(c) /\ Finished(c) =>
            /\ Len(StopsOf(out[c])) = 1
            /\ out[c][Len(out[c])] = AudioStop

\* C2: a synthesize command that fails before the first chunk is written
\* (reading the text and voice, the voice lookup, a numeric conversion, the
\* engine call, the post-processing) ends with no AudioChunk written and
\* exactly one AudioStop.
C2_EarlyFailureOneStopNoChunk ==
    \A c \in Conns :
        /\ IsSynthCmd(c)
        /\ Finished(c)
        /\ loc[c].err \in {"TypeError", "KeyError", "ValueError", "EngineError"}
        => /\ ChunksOf(out[c]) = <<>>
           /\ Len(StopsOf(out[c])) = 1

\* C3: a synthesize command that succeeds with a waveform of L samples has
\* written ceil(L / 1024) chunks, the k-th carrying the samples from
\* (k - 1) * 1024 up to 1024 more or the end of the waveform, so that every
\* chunk but possibly the last has 1024 samples, the last has L mod 1024 when
\* that is not zero, and the payloads concatenated are the L samples in order;
\* the AudioStop follows the chunks.
C3_Chunking ==
    \A c \in Conns :
        IsSynthCmd(c) /\ pc[c] = "return" /\ loc[c].err = "none" =>
            LET len == loc[c].len
                chunks == ChunksOf(out[c])
                n == Len(chunks)
            IN  /\ n = CeilDiv(len, chunk_size)
                /\ out[c] = chunks \o <<AudioStop>>
                /\ \A k \in 1..n :
                      /\ chunks[k].rate = sample_rate
                      /\ chunks[k].width = 2 /\ chunks[k].channels = 1
                      /\ k < n => chunks[k].hi - chunks[k].lo = chunk_size
                      /\ (k = n /\ len % chunk_size # 0)
                            => chunks[k].hi - chunks[k].lo = len % chunk_size
                      /\ (k = n /\ len % chunk_size = 0)
                            => chunks[k].hi - chunks[k].lo = chunk_size
                /\ ConcatPayloads(chunks) = [j \in 1..len |-> j]

\* C3 witness: a successful command of three chunks, the last one short.
C3_Witness ==
    \E c \in Conns :
        /\ IsSynthCmd(c) /\ pc[c] = "return" /\ loc[c].err = "none"
        /\ Len(ChunksOf(out[c])) = 3
        /\ out[c][3].hi - out[c][3].lo < chunk_size
        /\ out[c][3].hi - out[c][3].lo > 0

\* C4: for a synthesize command whose text is empty or absent the engine is
\* not invoked and no AudioChunk is written.
C4_EmptyTextNoEngine ==
    \A c \in Conns :
        IsSynthCmd(c) /\ (cur[c].text.isNone \/ cur[c].text.val = <<>>) =>
            /\ ~call[c].made
            /\ ChunksOf(out[c]) = <<>>

\* C5: the engine is never invoked with a language outside the five
\* supported codes.
C5_EngineLanguageSupported ==
    \A c \in Conns : call[c].made => call[c].lang \in SUPPORTED_LANGUAGES

\* C6 as stated: whenever the decomposed voice id has no entry in the voice
\* table, the request does not fail at the voice lookup and an engine call
\* gets the style of the configured default voice, whatever the voice table
\* and the configuration.
C6_SubstitutionNeverFails ==
    \A c \in Conns :
        IsSynthCmd(c) /\ loc[c].req_voice \notin DOMAIN voice_styles =>
            /\ loc[c].err # "KeyError"
            /\ call[c].made => call[c].style = Style(ConfiguredDefaultVoice)

\* C6 amended: whenever the decomposed voice id has no entry in the voice
\* table, the lookup replaces it by the configured default voice id.  If
\* that id is a key of the voice table, the request does not fail at the
\* lookup, and any engine call for the command gets the default voice's
\* style.  If it is not, the lookup raises KeyError: the engine is not
\* invoked and no AudioChunk is written.
C6_SubstituteDefault ==
    \A c \in Conns :
        IsSynthCmd(c) /\ loc[c].req_voice \notin DOMAIN voice_styles =>
            /\ PastLookup(c) => loc[c].voice_name = ConfiguredDefaultVoice
            /\ call[c].made =>
                 /\ call[c].voice_name = ConfiguredDefaultVoice
                 /\ call[c].style = voice_styles[ConfiguredDefaultVoice]
            /\ ConfiguredDefaultVoice \in DOMAIN voice_styles
                 => loc[c].err # "KeyError"
            /\ ConfiguredDefaultVoice \notin DOMAIN voice_styles
                 => /\ PastLookup(c) => loc[c].err = "KeyError"
                    /\ ~call[c].made
                    /\ ChunksOf(out[c]) = <<>>

\* C6 witness: the engine is being invoked with the default voice's style
\* for a command that named a voice that is not loaded.
C6_Witness ==
    \E c \in Conns :
        /\ IsSynthCmd(c)
        /\ pc[c] = "engine"
        /\ loc[c].req_voice \notin DOMAIN voice_styles
        /\ ConfiguredDefaultVoice \in DOMAIN voice_styles
        /\ call[c].made
        /\ call[c].style = voice_styles[ConfiguredDefaultVoice]

\* C7: whenever the engine is invoked, the voice id resolved for the command
\* is a key of the voice table and the style passed is the table's entry
\* for it.
C7_EngineVoiceInTable ==
    \A c \in Conns :
        call[c].made =>
            /\ call[c].voice_name = loc[c].voice_name
            /\ call[c].voice_name \in DOMAIN voice_styles
            /\ call[c].style = voice_styles[call[c].voice_name]

\* C7 witness: the engine is being invoked for a command whose voice id was
\* in the voice table as sent.
C7_Witness ==
    \E c \in Conns :
        /\ pc[c] = "engine"
        /\ call[c].made
        /\ call[c].voice_name = loc[c].req_voice
        /\ loc[c].req_voice \in DOMAIN voice_styles

\* C8: when handle_event has handled a describe event, the Info was written
\* on that connection.
C8_DescribeAnswered ==
    \A c \in Conns :
        cur[c].type = "describe" /\ Finished(c) =>
            \E k \in 1..Len(out[c]) : out[c][k].type = "info"

\* C9: once the Info is built, the voice names it advertises are exactly
\* <language>_<voiceId> for the supported languages and the voice ids that
\* are keys of the voice table.
C9_AdvertisedAreLoaded ==
    mainpc \in {"start_server", "run"} =>
        wyoming_info =
            { lang \o <<"_">> \o v :
                lang \in SUPPORTED_LANGUAGES, v \in DOMAIN voice_styles }

\* C10: an event that is not a synthesize command is ignored: nothing is
\* written, the engine is not invoked, no exception is raised, and
\* handle_event returns True, the session going on to its next event.
C10_OtherEventsIgnored ==
    \A c \in Conns :
        cur[c].type \notin {"none", "synthesize"} =>
            /\ pc[c] = "return"
            /\ ret[c] = TRUE
            /\ out[c] = <<>>
            /\ ~call[c].made
            /\ loc[c] = NoLocals

\* C10 witness: a non-synthesize event was handled by a session that had
\* handled a synthesize command before, with a command still to come.
C10_Witness ==
    \E c \in Conns :
        /\ cur[c].type = "ping"
        /\ pc[c] = "return"
        /\ ncmds = 1


\* The default language as the configuration states it.
ConfiguredDefaultLanguage ==
    IF "default_language" \in DOMAIN config
    THEN config["default_language"] ELSE fr

C12_SequentialPerConnection ==
    \A c \in Conns :
        IsSynthCmd(c) /\ wire[c].cmds >= 2 =>
            /\ \/ wire[c].last.cmd = wire[c].cmds
               \/ wire[c].last = [cmd |-> wire[c].cmds - 1, type |-> "audio-stop"]
            /\ out[c] # <<>> => wire[c].last.cmd = wire[c].cmds
            /\ wire[c].last.cmd = wire[c].cmds =>
                 /\ out[c] # <<>>
                 /\ wire[c].last.type = out[c][Len(out[c])].type

\* C12 witness: the second command of a connection is writing its chunks.
C12_Witness ==
    \E c \in Conns :
        /\ IsSynthCmd(c)
        /\ wire[c].cmds = 2
        /\ pc[c] = "chunk"
        /\ wire[c].last = [cmd |-> 2, type |-> "audio-chunk"]

\* main() is over: it returned, or an exception left it.
MainEnded == mainpc \in {"exited", "raised"}

\* C17, as claimed: each failing step of the advertisement (the address
\* lookup included) is logged, and an advertisement that was registered is
\* no longer registered once main() is over.
C17_AsClaimed ==
    /\ (zc.failed # "none" \/ zc.local_ip = "0.0.0.0") => zc.logged
    /\ MainEnded => ~zc.registered

\* C17, amended: a step that raises out of the setup (imports, ServiceInfo,
\* AsyncZeroconf, registration) is logged and main() goes on to server.run:
\* it never ends without having called it.  A failed address lookup alone is
\* not logged, the setup goes on with 0.0.0.0.  Once main() is over, on
\* normal exit and on failure alike, an advertisement that was registered is
\* unregistered, unless the unregistration raised, which is logged as a
\* warning.
C17_ZeroconfBestEffort ==
    /\ zc.failed # "none" =>
          /\ zc.logged
          /\ mainpc \in {"serve", "run", "finally", "finally_err",
                          "exited", "raised"}
          /\ mainpc \in {"finally", "finally_err", "exited", "raised"}
                => server # "not_started"
    /\ (zc.failed = "none" /\ zc.local_ip = "0.0.0.0") => ~zc.logged
    /\ (MainEnded /\ zc.registered) => zc.warned
    /\ (MainEnded /\ zc.aiozc /\ zc.failed = "none" /\ ~zc.warned)
          => ~zc.registered

\* The registration raised, it was logged, and the server listens.
C17_Witness ==
    /\ env.zeroconf
    /\ zc.failed = "register"
    /\ zc.logged
    /\ server = "listening"

\* C18: the service is advertised only once the server listens; there is no
\* state where it is advertised and server.run has not been called.
C18_RegisteredAfterListening == zc.registered => server # "not_started"

\* Connections with a synthesize command under way.
InEngine == { c \in Conns : pc[c] = "engine" }

\* C13, as claimed: while one connection is inside the engine call, another
\* connection can take its next step: receive an event, write a chunk, write
\* the stop event.
C13_OthersProgressDuringEngine ==
    \A c \in env.conns : \A d \in env.conns \ {c} :
        (mainpc = "run" /\ pc[c] = "engine") =>
            /\ pc[d] = "idle" =>
                  ENABLED (\E ev \in ClientEvents : HandleOtherEvent(d, ev))
            /\ pc[d] = "chunk" => ENABLED WriteChunk(d)
            /\ pc[d] = "stop" => ENABLED WriteStop(d)

\* C14: at most one invocation of the engine is in progress at any time,
\* over all connections.
C14_EngineSerialized == Cardinality(InEngine) <= 1

\* One connection is inside the engine call while the other has a command
\* under way, its chunk not yet written.
C14_Witness ==
    /\ pc["c1"] = "engine"
    /\ pc["c2"] = "chunk"
    /\ IsSynthCmd("c2")

\* A write raised while the command of connection c was emitting its events
\* (a chunk, or the stop event that follows the chunks).
FailedWhileEmitting(c) == IsSynthCmd(c) /\ loc[c].err = "WriteError"

\* C15, as claimed: a command that fails once chunk emission has begun still
\* ends with exactly one stop event, the last event written for it.
C15_FailureStillStops ==
    \A c \in Conns :
        FailedWhileEmitting(c) /\ Finished(c) =>
            /\ Len(StopsOf(out[c])) = 1
            /\ out[c][Len(out[c])] = AudioStop

\* C15, amended: after a write failed, no further chunk is written for the
\* command (the loop is left, the chunks written are those before the
\* failure) and the except clause writes the stop event; when handle_event
\* returns the events are those chunks and one stop event, and when that last
\* write raises too the exception leaves the handler with no stop event.
C15_NoChunkAfterFailure ==
    \A c \in Conns :
        FailedWhileEmitting(c) =>
            /\ pc[c] \in {"except", "return", "crashed"}
            /\ Len(ChunksOf(out[c])) = loc[c].i \div chunk_size
            /\ pc[c] = "except" => out[c] = ChunksOf(out[c])
            /\ pc[c] = "return" => out[c] = ChunksOf(out[c]) \o <<AudioStop>>
            /\ pc[c] = "crashed" => out[c] = ChunksOf(out[c])

\* A chunk write failed after two chunks were written, with more samples
\* left; the command ended with those two chunks and the stop event.
C15_Witness ==
    /\ FailedWhileEmitting("c1")
    /\ pc["c1"] = "return"
    /\ Len(ChunksOf(out["c1"])) = 2
    /\ loc["c1"].i < loc["c1"].len
    /\ out["c1"][3] = AudioStop

\* The command of connection c met a caller fault (absent text, unknown
\* voice, a configuration value that is no number) or an engine fault.
CallerOrEngineFault(c) ==
    /\ IsSynthCmd(c)
    /\ loc[c].err \in {"TypeError", "KeyError", "ValueError", "EngineError"}

\* C16, as claimed: a caller fault or an engine fault does not leave the
\* handler: the handling of the command ends with handle_event returning
\* True, after which the session takes its next event.
C16_ErrorsContained ==
    \A c \in Conns :
        CallerOrEngineFault(c) /\ Finished(c) =>
            /\ pc[c] = "return"
            /\ ret[c] = TRUE

\* The bootstrap of main() is over: the handler factory holds the objects.
Bootstrapped ==
    mainpc \notin {"load_config", "load_engine", "load_voices", "build_info"}

\* C19: once the bootstrap is over no step, of any handler or of main(),
\* changes config, voice_styles or the engine's sample rate.
C19_SharedReadOnly ==
    [][Bootstrapped =>
          /\ config' = config
          /\ voice_styles' = voice_styles
          /\ sample_rate' = sample_rate]_vars

\* A second command was handled to its end with a voice that is not in the
\* table (the default was substituted), and the table is still the one the
\* bootstrap loaded.
C19_Witness ==
    /\ ncmds = 2
    /\ pc["c1"] = "return"
    /\ IsSynthCmd("c1")
    /\ loc["c1"].err = "none"
    /\ loc["c1"].req_voice \notin DOMAIN voice_styles
    /\ voice_styles = LoadVoiceStyles(env.voice_files)

\* The number of samples a sequence of chunks carries.
RECURSIVE SampleCount(_)
SampleCount(chunks) ==
    IF chunks = <<>> THEN 0
    ELSE (Head(chunks).hi - Head(chunks).lo) + SampleCount(Tail(chunks))

\* The chunks carry the first samples of the row, in order, none left out.
IsPrefixOfRow(chunks) ==
    \A k \in 1..Len(chunks) :
        /\ chunks[k].lo = IF k = 1 THEN 0 ELSE chunks[k - 1].hi
        /\ chunks[k].lo <= chunks[k].hi

\* C20: the samples written for a command are a prefix of the row the engine
\* returned, never more than trim_samples = floor(sample_rate * duration) of
\* them; a command that succeeds with trim_samples = M below the row's N
\* samples has written exactly M samples.
C20_Trimming ==
    \A c \in Conns :
        IsSynthCmd(c) =>
            LET chunks == ChunksOf(out[c])
                emitted == SampleCount(chunks)
            IN  /\ emitted <= loc[c].trim_samples
                /\ emitted <= loc[c].n
                /\ IsPrefixOfRow(chunks)
                /\ (pc[c] = "return" /\ loc[c].err = "none"
                        /\ loc[c].trim_samples < loc[c].n)
                      => emitted = loc[c].trim_samples

\* A command succeeded with a row of 3000 samples trimmed to 2072, written
\* as three chunks and the stop event.
C20_Witness ==
    /\ IsSynthCmd("c1")
    /\ pc["c1"] = "return"
    /\ loc["c1"].err = "none"
    /\ loc["c1"].n = 3000
    /\ loc["c1"].trim_samples = 2072
    /\ SampleCount(ChunksOf(out["c1"])) = 2072
    /\ Len(out["c1"]) = 4

=============================================================================
